---- MODULE Spec2Model ----
(***************************************************************************)
(* Tamper-evident credential protocol of certificate_gen_ver:             *)
(* issuance (CertificateGenerator.generate_certificate), the two record   *)
(* stores (MongoDB collection, local credentials.json log), the carrier   *)
(* embedded in the PDF "creator" field, and the four verification         *)
(* operations (CertificateGenerator.verify_certificate / verify_file,     *)
(* verify_tool verify-file / verify-db).                                  *)
(*                                                                         *)
(* Every value of the program is a string here, as in the JSON documents  *)
(* the program handles.  SHA-256 and HMAC-SHA-256 are modelled as         *)
(* collision-free symbolic digests: the digest of a message is a string   *)
(* that spells out the message (and the key).  Python's None is the       *)
(* string None below; a dict is a function from keys to values.           *)
(***************************************************************************)
EXTENDS Integers, Sequences, FiniteSets, TLC

VARIABLES
    mongoDb,         \* documents of certificate_db.certificates, in insertion order
    localStore,      \* the JSON array of credentials.json
    files,           \* certificates/<name>.pdf -> its /Creator metadata string
    mongoConnected,  \* the process has a MongoConnector with connected = True
    certSecret,      \* the CERT_SECRET environment variable (None when unset)
    lastToken,       \* CertificateGenerator._last_token
    clock,           \* number of generate_certificate calls so far
    tampers,         \* number of out-of-band edits of a stored record so far
    packed,          \* history: the payload serialised into each file's creator
    issuedDb,        \* history: the documents of mongoDb as they were inserted
    issuedLocal,     \* history: the entries of localStore as they were appended
    last,            \* history: the call that has just completed, if nothing happened since
    verdict,         \* result of the verification operation that has just run
    logFile,         \* credentials.json as the processes appending to it see it
    appenders,       \* the processes running _save_to_local_store: position, locals
    logBefore,       \* history: the records of credentials.json before the appends
    call             \* a call of generate_checksum: its arguments and what it returned

\* credentials.json under concurrent appenders, and the checksum calls, have
\* specifications of their own (SpecStore, SpecChecksum) below
auxVars == <<logFile, appenders, logBefore, call>>

mainVars == <<mongoDb, localStore, files, mongoConnected, certSecret, lastToken,
              clock, tampers, packed, issuedDb, issuedLocal, last, verdict>>

vars == <<mainVars, auxVars>>

-----------------------------------------------------------------------------
(* Bounds of the model *)

MaxIssues == 1
MaxTampers == 1

-----------------------------------------------------------------------------
(* Values *)

None == "None"
EmptyDict == [k \in {} |-> None]
Get(d, k) == IF k \in DOMAIN d THEN d[k] ELSE None
\* Python truthiness of a string-or-None value and of a dict-or-None value
Truthy(v) == v # None /\ v # ""
TruthyDict(d) == DOMAIN d # {}

Names == {"Alice", "Bob"}
IssueCourse == "Python Basics"
OtherCourse == "Course 2"
Courses == {IssueCourse, OtherCourse}
IssueDate == "January 01, 2025"
OtherDate == "January 02, 2025"
DefaultIssuer == "Certificate Authority"
OtherIssuer == "Test Authority"
ExplicitId == "CERT-2025-100"
Digit == <<"1", "2", "3", "4", "5", "6", "7", "8", "9">>
RandomCertId(n) == "CERT-20250101-" \o Digit[n]
TokenUrlsafe(n) == "tok" \o Digit[n]
IsoNow(n) == "2025-01-01T00:00:0" \o Digit[n]
CertIds == {ExplicitId} \cup {RandomCertId(n) : n \in 1..MaxIssues}
AbsentId == "CERT-20250101-0"
FabricatedToken == "fabricated"
ConfiguredSecret == "configured-secret"
DefaultSecret == "default-secret"
ToolDefaultSecret == "default-secret"
ExplicitSecret == "explicit-secret"
FileOf(name) == "certificates/" \o name \o ".pdf"
NoFile == "<no file>"
DefaultCreator == "ReportLab PDF Library"
Marker == "CertGen|"

-----------------------------------------------------------------------------
(* HiddenMetadata *)

\* The digests are modelled collision-free and at their real widths (the
\* carrier is cut at a fixed number of characters): a digest spells out its
\* message, abbreviated, and is padded with zeros to the width of the hex digest.
Zeros == "0000000000000000000000000000000000000000000000000000000000000000"
Pad(s, width) == s \o SubSeq(Zeros, 1, width - Len(s))

\* the values a checksum input field takes in the model, and a letter for each
FieldValues ==
    <<None, "Alice", "Bob", IssueCourse, OtherCourse, IssueDate, OtherDate,
      DefaultIssuer, OtherIssuer, ExplicitId, AbsentId,
      DefaultSecret, ConfiguredSecret>>
    \o [n \in 1..9 |-> RandomCertId(n)] \o [n \in 1..9 |-> IsoNow(n)]
    \o <<ExplicitSecret, "">>
Letters == "nABPCJKDTXZdcrstuvwxyzabefghijkEo"
Letter(v) ==
    LET i == CHOOSE j \in 1..Len(FieldValues) : FieldValues[j] = v
    IN  SubSeq(Letters, i, i)

ChecksumKeys == <<"certificate_id", "course_name", "generated_at",
                  "issue_date", "issuer", "recipient_name">>

RECURSIVE DumpsFrom(_, _, _)
DumpsFrom(data, keys, i) ==
    IF i > Len(keys) THEN ""
    ELSE IF keys[i] \notin DOMAIN data THEN DumpsFrom(data, keys, i + 1)
    ELSE Digit[i] \o Letter(data[keys[i]]) \o DumpsFrom(data, keys, i + 1)

\* json.dumps(data, sort_keys=True) of a flat dict with the checksum keys, in
\* abbreviated form: the members in the sorted order of their keys, each as the
\* rank of its key followed by the letter of its value
DumpsSorted(data) == DumpsFrom(data, ChecksumKeys, 1)

\* hashlib.sha256(msg.encode()).hexdigest(): 64 characters
Sha256Hex(msg) == Pad("5" \o msg, 64)
\* hmac.new(key.encode(), msg.encode(), hashlib.sha256).hexdigest()[:16]
HmacSha256Hex16(key, msg) == Pad(Letter(key) \o msg, 16)

Getenv(value, default) == IF value = None THEN default ELSE value

GenerateChecksum(data, secret) ==
    LET key == IF secret = None THEN Getenv(certSecret, DefaultSecret) ELSE secret
    IN  HmacSha256Hex16(key, DumpsSorted(data))

\* A Python dict as the program builds it: its items in insertion order.  A
\* value is a string (or None), or a dict again.
Str(key, value) == [key |-> key, kind |-> "str", str |-> value, dict |-> <<>>]
Sub(key, items) == [key |-> key, kind |-> "dict", str |-> None, dict |-> items]

KeyRank(key) == CHOOSE i \in 1..Len(ChecksumKeys) : ChecksumKeys[i] = key

\* sorted(dct.items()): the items in the order of their keys
SortByKey(items) ==
    [n \in 1..Len(items) |->
        items[CHOOSE i \in 1..Len(items) :
                Cardinality({j \in 1..Len(items) :
                                KeyRank(items[j].key) < KeyRank(items[i].key)}) = n - 1]]

\* the members from the i-th on, each as the rank of its key followed by the
\* letter of its value or, in parentheses, by the encoding of its dict, whose
\* items are put in order in their turn
RECURSIVE DumpsLevel(_, _, _)
DumpsLevel(items, i, sort_keys) ==
    IF i > Len(items) THEN ""
    ELSE LET it == items[i]
             value == IF it.kind = "str" THEN Letter(it.str)
                      ELSE "(" \o DumpsLevel(IF sort_keys THEN SortByKey(it.dict) ELSE it.dict,
                                                 1, sort_keys) \o ")"
         IN  Digit[KeyRank(it.key)] \o value \o DumpsLevel(items, i + 1, sort_keys)

\* json.dumps(data, sort_keys=sort_keys), in the abbreviated form of DumpsSorted
JsonDumps(items, sort_keys) ==
    DumpsLevel(IF sort_keys THEN SortByKey(items) ELSE items, 1, sort_keys)

\* mutation of GenerateChecksumOf: an empty secret is taken for a missing one
GenerateChecksumOf_FalsySecret(items, secret) ==
    LET key == IF ~Truthy(secret) THEN Getenv(certSecret, DefaultSecret) ELSE secret
    IN  HmacSha256Hex16(key, JsonDumps(items, TRUE))

\* HiddenMetadata.generate_checksum on a dict given with its insertion order
GenerateChecksumOf(items, secret) ==
    LET key == IF secret = None THEN Getenv(certSecret, DefaultSecret) ELSE secret
    IN  HmacSha256Hex16(key, JsonDumps(items, TRUE))

\* mutation of ToolGenerateChecksum: json.dumps without sort_keys
ToolGenerateChecksum_Unsorted(items, secret) ==
    LET key == IF secret = None THEN Getenv(certSecret, ToolDefaultSecret) ELSE secret
    IN  HmacSha256Hex16(key, JsonDumps(items, FALSE))

\* verify_tool.generate_checksum
ToolGenerateChecksum(items, secret) ==
    LET key == IF secret = None THEN Getenv(certSecret, ToolDefaultSecret) ELSE secret
    IN  HmacSha256Hex16(key, JsonDumps(items, TRUE))

\* mutation of GenerateToken: the token is stored as it is instead of its digest
GenerateToken_Unhashed(n) ==
    [token |-> TokenUrlsafe(n), token_hash |-> TokenUrlsafe(n)]

\* HiddenMetadata.generate_token; n numbers the draws of the random source
GenerateToken(n) ==
    [token |-> TokenUrlsafe(n), token_hash |-> Sha256Hex(TokenUrlsafe(n))]

\* the keys of the dicts the program serialises compactly, in insertion order
PayloadKeys == <<"id", "token_hash", "checksum", "certificate_id", "recipient_name",
                 "course_name", "issue_date", "issuer", "generated_at">>

RECURSIVE DumpsCompactFrom(_, _, _)
DumpsCompactFrom(d, keys, i) ==
    IF i > Len(keys) THEN ""
    ELSE LET k == keys[i]
             rest == DumpsCompactFrom(d, keys, i + 1)
             item == "\"" \o k \o "\":" \o
                     (IF d[k] = None THEN "null" ELSE "\"" \o d[k] \o "\"")
         IN  IF k \notin DOMAIN d THEN rest
             ELSE IF rest = "" THEN item ELSE item \o "," \o rest

\* json.dumps(payload, separators=(',', ':')): keys in insertion order
DumpsCompact(payload) == "{" \o DumpsCompactFrom(payload, PayloadKeys, 1) \o "}"

MaxHidden == 200
Take(s, n) == SubSeq(s, 1, IF Len(s) < n THEN Len(s) ELSE n)

Credentials(rec) == IF "credentials" \in DOMAIN rec THEN rec["credentials"] ELSE EmptyDict

\* mutation of EmbedPayload: the recipient name is embedded as well
EmbedPayload_WithRecipient(cert_data) ==
    [id             |-> Get(cert_data, "certificate_id"),
     token_hash     |-> Get(Credentials(cert_data), "token_hash"),
     checksum       |-> Get(Credentials(cert_data), "checksum"),
     recipient_name |-> Get(cert_data, "recipient_name")]

EmbedPayload(cert_data) ==
    [id         |-> Get(cert_data, "certificate_id"),
     token_hash |-> Get(Credentials(cert_data), "token_hash"),
     checksum   |-> Get(Credentials(cert_data), "checksum")]

\* mutation of EmbedInPdfMetadata: the serialised payload is not cut
EmbedInPdfMetadata_NoTruncation(cert_data, embedOk) ==
    IF embedOk
    THEN Marker \o DumpsCompact(EmbedPayload(cert_data))
    ELSE DefaultCreator

\* mutation of EmbedInPdfMetadata: the exception leaves generate_certificate
\* before c.save(), and no file is written
EmbedInPdfMetadata_Propagates(cert_data, embedOk) ==
    IF embedOk
    THEN Marker \o Take(DumpsCompact(EmbedPayload(cert_data)), MaxHidden)
    ELSE NoFile

\* info.creator after embed_in_pdf_metadata; embedOk = FALSE is the swallowed exception
EmbedInPdfMetadata(cert_data, embedOk) ==
    IF embedOk
    THEN Marker \o Take(DumpsCompact(EmbedPayload(cert_data)), MaxHidden)
    ELSE DefaultCreator

\* str.find / str.rfind: 0 stands for Python's -1, positions are 1-based
Find(s, sub) ==
    LET hits == {i \in 1..(Len(s) - Len(sub) + 1) : SubSeq(s, i, i + Len(sub) - 1) = sub}
    IN  IF hits = {} THEN 0 ELSE CHOOSE i \in hits : \A j \in hits : i <= j
RFind(s, sub) ==
    LET hits == {i \in 1..(Len(s) - Len(sub) + 1) : SubSeq(s, i, i + Len(sub) - 1) = sub}
    IN  IF hits = {} THEN 0 ELSE CHOOSE i \in hits : \A j \in hits : i >= j

\* mutation of AfterMarker: the text after the last marker, not the first
AfterMarker_LastMarker(creator) ==
    SubSeq(creator, RFind(creator, Marker) + Len(Marker), Len(creator))

\* creator.split('CertGen|', 1)[1]
AfterMarker(creator) ==
    SubSeq(creator, Find(creator, Marker) + Len(Marker), Len(creator))

\* Identifiers a caller may pass as certificate_number: with the 64-character
\* token_hash and the 16-character checksum, the payload of an identifier of 81
\* characters serialises to exactly 200 characters, one of 82 to 201
Id81 == "CERT-20250101-" \o "A" \o Zeros \o "00"
Id82 == "CERT-20250101-" \o "B" \o Zeros \o "000"
MarkerId == "CertGen|7"
BraceId == "{x}"

\* cert_data as embed_in_pdf_metadata may receive it
PackData(id, withCredentials) ==
    LET cert_data == [certificate_id |-> id, recipient_name |-> "Alice",
                      course_name |-> IssueCourse, issue_date |-> IssueDate,
                      issuer |-> DefaultIssuer, generated_at |-> IsoNow(1)]
    IN  IF withCredentials
        THEN [k \in DOMAIN cert_data \cup {"credentials"} |->
                 IF k = "credentials"
                 THEN [token_hash |-> Sha256Hex(TokenUrlsafe(1)), checksum |-> Pad("dA", 16)]
                 ELSE cert_data[k]]
        ELSE cert_data
PackInputs ==
    {PackData(id, TRUE) : id \in {ExplicitId, Id81, Id82, MarkerId, BraceId, None}}
    \cup {PackData(ExplicitId, FALSE)}

\* a JSON object without the id member
IdlessPayload == [token_hash |-> Sha256Hex(TokenUrlsafe(1)), checksum |-> Pad("dA", 16)]

\* A JSON value that is not an object (a number, null) is a scalar: it has no
\* .get, and Python's truth of it is its own
JsonScalar(text) == [scalar |-> text]
JsonLiterals == {"123", "null"}
IsDict(v) == "scalar" \notin DOMAIN v
TruthyJson(v) == IF IsDict(v) THEN TruthyDict(v) ELSE v.scalar # "null"

\* json.loads: a literal is its scalar; otherwise the text is the serialisation
\* of one object, found among the payloads that have been serialised into the
\* files and the objects of the input texts; any other text is a
\* JSONDecodeError (ParseError).
ParseError == [error |-> "JSONDecodeError"]
InputPayloads == {EmbedPayload(cert_data) : cert_data \in PackInputs} \cup {IdlessPayload}
KnownPayloads == {packed[f] : f \in DOMAIN packed}
JsonLoads(text) ==
    LET hits == {p \in KnownPayloads : DumpsCompact(p) = text}
        others == {p \in InputPayloads : DumpsCompact(p) = text}
    IN  IF text \in JsonLiterals THEN JsonScalar(text)
        ELSE IF hits # {} THEN CHOOSE p \in hits : TRUE
        ELSE IF others # {} THEN CHOOSE p \in others : TRUE
        ELSE ParseError

\* mutation of ExtractPayloadFromPdf: the second json.loads has no handler of
\* its own, and its JSONDecodeError leaves the function
ExtractPayloadFromPdf_NoInnerTry(creator) ==
    IF ~Truthy(creator) \/ Find(creator, Marker) = 0 THEN EmptyDict
    ELSE LET raw == AfterMarker(creator)
             strict == JsonLoads(raw)
         IN  IF strict # ParseError THEN strict
             ELSE LET start == Find(raw, "{")
                      end == RFind(raw, "}")
                  IN  IF start = 0 \/ end = 0 THEN EmptyDict
                      ELSE JsonLoads(SubSeq(raw, start, end))

\* verify_tool.extract_payload_from_pdf: the payload, or EmptyDict for None
ExtractPayloadFromPdf(creator) ==
    IF ~Truthy(creator) \/ Find(creator, Marker) = 0 THEN EmptyDict
    ELSE LET raw == AfterMarker(creator)
             strict == JsonLoads(raw)
         IN  IF strict # ParseError THEN strict
             ELSE LET start == Find(raw, "{")
                      end == RFind(raw, "}")
                  IN  IF start = 0 \/ end = 0 THEN EmptyDict
                      ELSE LET again == JsonLoads(SubSeq(raw, start, end))
                           IN  IF again # ParseError THEN again ELSE EmptyDict

-----------------------------------------------------------------------------
(* Record stores *)

\* first document of a store whose certificate_id is cert_id, or EmptyDict (None)
FindById(store, cert_id) ==
    LET hits == {i \in 1..Len(store) : Get(store[i], "certificate_id") = cert_id}
    IN  IF hits = {} THEN EmptyDict
        ELSE store[CHOOSE i \in hits : \A j \in hits : i <= j]

\* MongoConnector.retrieve_certificate
RetrieveCertificate(cert_id) ==
    IF ~mongoConnected THEN EmptyDict ELSE FindById(mongoDb, cert_id)

\* CertificateGenerator._load_local_record
LoadLocalRecord(cert_id) == FindById(localStore, cert_id)

-----------------------------------------------------------------------------
(* Verification *)

\* A verification result.  verified/reason/from are the returned dict (or the
\* message verify_tool prints); op and args name the call; steps is history:
\* the steps the call ran, "checksum" being the comparison of the recomputed
\* checksum with the stored one.
Result(op, args, verified, reason, from, steps) ==
    [op |-> op, args |-> args, verified |-> verified, reason |-> reason,
     from |-> from, steps |-> steps]

NoArgs == [cert_id |-> None, name |-> None, course |-> None, token |-> None, file |-> None]
IdArgs(cert_id, name, course, token) ==
    [cert_id |-> cert_id, name |-> name, course |-> course, token |-> token, file |-> None]
FileArgs(file, token) ==
    [cert_id |-> None, name |-> None, course |-> None, token |-> token, file |-> file]
NoVerdict == Result("none", NoArgs, FALSE, None, None, {})

\* The commands are synchronous and run one at a time: a command starts when
\* no verification result is on display.
Idle == verdict = NoVerdict

\* mutation of RecomputeData: generated_at is left out of the rebuilt dict
RecomputeData_NoGeneratedAt(record) ==
    [certificate_id |-> Get(record, "certificate_id"),
     recipient_name |-> Get(record, "recipient_name"),
     course_name    |-> Get(record, "course_name"),
     issue_date     |-> Get(record, "issue_date"),
     issuer         |-> Get(record, "issuer")]

\* mutation of RecomputeData: the issuer is taken from the template, not the record
RecomputeData_TemplateIssuer(record) ==
    [certificate_id |-> Get(record, "certificate_id"),
     recipient_name |-> Get(record, "recipient_name"),
     course_name    |-> Get(record, "course_name"),
     issue_date     |-> Get(record, "issue_date"),
     issuer         |-> DefaultIssuer,
     generated_at   |-> Get(record, "generated_at")]

\* the dict rebuilt from the stored record for the checksum
RecomputeData(record) ==
    [certificate_id |-> Get(record, "certificate_id"),
     recipient_name |-> Get(record, "recipient_name"),
     course_name    |-> Get(record, "course_name"),
     issue_date     |-> Get(record, "issue_date"),
     issuer         |-> Get(record, "issuer"),
     generated_at   |-> Get(record, "generated_at")]

StoredChecksum(record) == Get(Credentials(record), "checksum")
StoredTokenHash(record) == Get(Credentials(record), "token_hash")

\* `if stored and expected != stored`
ChecksumMismatch(record) ==
    /\ Truthy(StoredChecksum(record))
    /\ GenerateChecksum(RecomputeData(record), None) # StoredChecksum(record)

\* the steps behind a verdict reached after the checksum statement
ChecksumSteps(record, before) ==
    IF Truthy(StoredChecksum(record)) THEN before \cup {"checksum"} ELSE before

\* mutation of TokenMismatch: a record without a stored token_hash passes
TokenMismatch_SkipsMissingHash(token, record) ==
    /\ Truthy(token)
    /\ Truthy(Get(Credentials(record), "token_hash"))
    /\ Sha256Hex(token) # Get(Credentials(record), "token_hash")

\* `if token:` ... `if token_hash_local != record.get('credentials', {}).get('token_hash')`
TokenMismatch(token, record) ==
    /\ Truthy(token)
    /\ Sha256Hex(token) # StoredTokenHash(record)

\* verify_certificate: `if not stored_token_hash or token_hash != stored_token_hash`
TokenMismatchStrict(token, record) ==
    /\ Truthy(token)
    /\ (~Truthy(StoredTokenHash(record)) \/ Sha256Hex(token) # StoredTokenHash(record))

TokenSteps(token, before) == IF Truthy(token) THEN before \cup {"token"} ELSE before

NameMismatch(record, name) == Get(record, "recipient_name") # name
CourseMismatch(record, course) == Get(record, "course_name") # course

\* mutation of VerifyCertificate: the token is checked before the fields
VerifyCertificate_TokenFirst(certificate_id, recipient_name, course_name, token) ==
    LET args == IdArgs(certificate_id, recipient_name, course_name, token)
        R(verified, reason, steps) ==
            Result("verify_certificate", args, verified, reason,
                   IF verified THEN "db" ELSE None, steps)
        record == RetrieveCertificate(certificate_id)
    IN  IF ~mongoConnected
        THEN R(FALSE, "MongoDB not available for verification", {})
        ELSE IF ~TruthyDict(record)
        THEN R(FALSE, "Certificate not found in database", {"lookup"})
        ELSE IF TokenMismatchStrict(token, record)
        THEN R(FALSE, "Token mismatch", {"lookup", "token"})
        ELSE IF NameMismatch(record, recipient_name)
        THEN R(FALSE, "Recipient name mismatch", TokenSteps(token, {"lookup", "name"}))
        ELSE IF CourseMismatch(record, course_name)
        THEN R(FALSE, "Course name mismatch",
               TokenSteps(token, {"lookup", "name", "course"}))
        ELSE IF ChecksumMismatch(record)
        THEN R(FALSE, "Checksum mismatch - data may have been tampered",
               ChecksumSteps(record, TokenSteps(token, {"lookup", "name", "course"})))
        ELSE R(TRUE, None,
               ChecksumSteps(record, TokenSteps(token, {"lookup", "name", "course"})))

\* CertificateGenerator.verify_certificate
VerifyCertificate(certificate_id, recipient_name, course_name, token) ==
    LET args == IdArgs(certificate_id, recipient_name, course_name, token)
        R(verified, reason, steps) ==
            Result("verify_certificate", args, verified, reason,
                   IF verified THEN "db" ELSE None, steps)
        record == RetrieveCertificate(certificate_id)
    IN  IF ~mongoConnected
        THEN R(FALSE, "MongoDB not available for verification", {})
        ELSE IF ~TruthyDict(record)
        THEN R(FALSE, "Certificate not found in database", {"lookup"})
        ELSE IF NameMismatch(record, recipient_name)
        THEN R(FALSE, "Recipient name mismatch", {"lookup", "name"})
        ELSE IF CourseMismatch(record, course_name)
        THEN R(FALSE, "Course name mismatch", {"lookup", "name", "course"})
        ELSE IF TokenMismatchStrict(token, record)
        THEN R(FALSE, "Token mismatch", {"lookup", "name", "course", "token"})
        ELSE IF ChecksumMismatch(record)
        THEN R(FALSE, "Checksum mismatch - data may have been tampered",
               ChecksumSteps(record, TokenSteps(token, {"lookup", "name", "course"})))
        ELSE R(TRUE, None,
               ChecksumSteps(record, TokenSteps(token, {"lookup", "name", "course"})))

\* the token and checksum statements both verify-file implementations run on a record
RecordChecks(op, args, record, token, from, tokenMsg, checksumMsg) ==
    IF TokenMismatch(token, record)
    THEN Result(op, args, FALSE, tokenMsg, None, {"lookup", "token"})
    ELSE IF ChecksumMismatch(record)
    THEN Result(op, args, FALSE, checksumMsg, None,
                ChecksumSteps(record, TokenSteps(token, {"lookup"})))
    ELSE Result(op, args, TRUE, None, from,
                ChecksumSteps(record, TokenSteps(token, {"lookup"})))

\* CertificateGenerator.verify_file
VerifyFile(pdf_path, token) ==
    LET args == FileArgs(pdf_path, token)
        Fail(reason, steps) == Result("verify_file", args, FALSE, reason, None, steps)
        creator == files[pdf_path]
        raw == AfterMarker(creator)
        strict == JsonLoads(raw)
        start == Find(raw, "{")
        end == RFind(raw, "}")
        recovered == JsonLoads(SubSeq(raw, start, end))
        payload == IF strict # ParseError THEN strict ELSE recovered
        cert_id == Get(payload, "id")
        checksum == Get(payload, "checksum")
        record == RetrieveCertificate(cert_id)
        local_rec == LoadLocalRecord(cert_id)
    IN  IF files[pdf_path] = NoFile THEN Fail("File not found", {})
        ELSE IF ~Truthy(creator) \/ Find(creator, Marker) = 0
        THEN Fail("No embedded certificate metadata found", {})
        ELSE IF strict = ParseError /\ (start = 0 \/ end = 0)
        THEN Fail("Embedded metadata malformed", {})
        ELSE IF payload = ParseError
        THEN Fail("Error reading PDF: JSONDecodeError", {})
        ELSE IF ~IsDict(payload)
        THEN Fail("Error reading PDF: AttributeError", {})
        ELSE IF ~Truthy(cert_id)
        THEN Fail("Certificate ID missing in embedded metadata", {})
        ELSE IF mongoConnected
        THEN IF ~TruthyDict(record)
             THEN Fail("Certificate not found in database", {"lookup"})
             ELSE RecordChecks("verify_file", args, record, token, "db",
                               "Token mismatch",
                               "Checksum mismatch - data differs from DB")
        ELSE IF TruthyDict(local_rec)
        THEN RecordChecks("verify_file", args, local_rec, token, "local_store",
                          "Token mismatch",
                          "Checksum mismatch - data may have been tampered")
        ELSE IF Truthy(checksum)
        THEN Result("verify_file", args, TRUE, None, "pdf_metadata_only", {"lookup"})
        ELSE Fail("Insufficient metadata to verify", {"lookup"})

\* An exception no handler of the command catches: the command dies with a
\* traceback instead of a message
Traceback(exception) == "Traceback (most recent call last): " \o exception

\* verify_tool verify-file.  The command prints a message instead of returning
\* a dict: verified is TRUE exactly for the "Certificate VERIFIED" messages, and
\* reason is the message otherwise.  Only RuntimeError and FileNotFoundError
\* raised by extract_payload_from_pdf are caught, and payload.get is outside any
\* handler.
ToolVerifyFile(file_path, token) ==
    LET args == FileArgs(file_path, token)
        Fail(reason, steps) == Result("tool_verify_file", args, FALSE, reason, None, steps)
        payload == ExtractPayloadFromPdf(files[file_path])
        cert_id == Get(payload, "id")
        token_hash == Get(payload, "token_hash")
        checksum == Get(payload, "checksum")
        record == FindById(mongoDb, cert_id)
        local_rec == FindById(localStore, cert_id)
    IN  IF files[file_path] = NoFile THEN Fail("File not found", {})
        ELSE IF payload = ParseError THEN Fail(Traceback("JSONDecodeError"), {})
        ELSE IF ~TruthyJson(payload)
        THEN Fail("No embedded certificate metadata found in PDF", {})
        ELSE IF ~IsDict(payload) THEN Fail(Traceback("AttributeError"), {})
        ELSE IF mongoConnected
        THEN IF ~TruthyDict(record)
             THEN Fail("Certificate ID not found in database", {"lookup"})
             ELSE RecordChecks("tool_verify_file", args, record, token, "db",
                               "Token mismatch",
                               "Checksum mismatch - data differs from DB")
        ELSE IF TruthyDict(local_rec)
        THEN RecordChecks("tool_verify_file", args, local_rec, token, "local_store",
                          "Token mismatch (local store)",
                          "Checksum mismatch - data differs from local store")
        ELSE IF Truthy(token) /\ Sha256Hex(token) # token_hash
        THEN Fail("Token mismatch (metadata)", {"lookup", "token"})
        ELSE IF Truthy(checksum)
        THEN Result("tool_verify_file", args, FALSE,
                    "Certificate contains embedded credential checksum",
                    "pdf_metadata_only", TokenSteps(token, {"lookup"}))
        ELSE Fail("Insufficient embedded metadata to verify certificate",
                  TokenSteps(token, {"lookup"}))

\* verify_tool verify-db; course = None is the --course option left out
ToolVerifyDb(cert_id, name, course, token) ==
    LET args == IdArgs(cert_id, name, course, token)
        R(verified, reason, steps) ==
            Result("tool_verify_db", args, verified, reason,
                   IF verified THEN (IF mongoConnected THEN "db" ELSE "local_store")
                   ELSE None, steps)
        record == IF mongoConnected THEN FindById(mongoDb, cert_id)
                  ELSE FindById(localStore, cert_id)
    IN  IF ~TruthyDict(record)
        THEN R(FALSE, "Certificate not found", {"lookup"})
        ELSE IF NameMismatch(record, name)
        THEN R(FALSE, "Recipient name mismatch", {"lookup", "name"})
        ELSE IF CourseMismatch(record, course)
        THEN R(FALSE, "Course name mismatch", {"lookup", "name", "course"})
        ELSE IF TokenMismatch(token, record)
        THEN R(FALSE, "Token mismatch", {"lookup", "name", "course", "token"})
        ELSE IF ChecksumMismatch(record)
        THEN R(FALSE, "Checksum mismatch - data differs",
               ChecksumSteps(record, TokenSteps(token, {"lookup", "name", "course"})))
        ELSE R(TRUE, None,
               ChecksumSteps(record, TokenSteps(token, {"lookup", "name", "course"})))

-----------------------------------------------------------------------------
(* Issuance *)

CertData(certificate_number, recipient_name, course_name, issue_date, issuer, now) ==
    [certificate_id |-> certificate_number,
     recipient_name |-> recipient_name,
     course_name    |-> course_name,
     issue_date     |-> issue_date,
     issuer         |-> issuer,
     generated_at   |-> now]

\* cert_data["credentials"] = {...}
WithCredentials(cert_data, token_hash, checksum) ==
    [k \in DOMAIN cert_data \cup {"credentials"} |->
        IF k = "credentials"
        THEN [token_hash |-> token_hash, checksum |-> checksum]
        ELSE cert_data[k]]

\* db_record = dict(cert_data) plus created_at and file_path
DbRecord(cert_data, now, filepath) ==
    [k \in DOMAIN cert_data \cup {"created_at", "file_path"} |->
        IF k = "created_at" THEN now
        ELSE IF k = "file_path" THEN filepath
        ELSE cert_data[k]]

\* CertificateGenerator.generate_certificate.  certificate_number = None asks
\* for a random identifier; embedOk / storeOk = FALSE are the failures the
\* method swallows (embed_in_pdf_metadata raising, the store write failing).
GenerateCertificate(recipient_name, certificate_number, store_in_db, embedOk, storeOk) ==
    /\ Idle
    /\ clock < MaxIssues
    /\ LET n == clock + 1
           id == IF certificate_number = None THEN RandomCertId(n)
                 ELSE certificate_number
           cert_data == CertData(id, recipient_name, IssueCourse, IssueDate,
                                 DefaultIssuer, IsoNow(n))
           token == GenerateToken(n).token
           token_hash == GenerateToken(n).token_hash
           checksum == GenerateChecksum(cert_data, None)
           full == WithCredentials(cert_data, token_hash, checksum)
           filepath == FileOf(recipient_name)
           db_record == DbRecord(full, IsoNow(n), filepath)
           toMongo == store_in_db /\ mongoConnected /\ storeOk
           toLocal == store_in_db /\ ~mongoConnected /\ storeOk
           backend == IF toMongo THEN "db" ELSE IF toLocal THEN "local_store" ELSE None
       IN  /\ files' = [files EXCEPT ![filepath] = EmbedInPdfMetadata(full, embedOk)]
           /\ mongoDb' = IF toMongo THEN Append(mongoDb, db_record) ELSE mongoDb
           /\ localStore' = IF toLocal THEN Append(localStore, db_record) ELSE localStore
           /\ lastToken' = token
           /\ clock' = n
           /\ packed' = [packed EXCEPT ![filepath] =
                              IF embedOk THEN EmbedPayload(full) ELSE EmptyDict]
           /\ issuedDb' = IF toMongo THEN Append(issuedDb, db_record) ELSE issuedDb
           /\ issuedLocal' = IF toLocal THEN Append(issuedLocal, db_record)
                             ELSE issuedLocal
           /\ last' = [record |-> full, token |-> token, backend |-> backend,
                       path |-> filepath,
                       failed |-> (IF embedOk THEN {} ELSE {"embed"})
                                  \cup (IF store_in_db /\ ~storeOk THEN {"store"}
                                        ELSE {})]
           /\ verdict' = NoVerdict
    /\ UNCHANGED auxVars
    /\ UNCHANGED <<mongoConnected, certSecret, tampers>>

-----------------------------------------------------------------------------
(* Environment *)

NoLast == EmptyDict
Files == {FileOf(name) : name \in Names}

\* A process starts with MongoDB reachable (MongoConnector.connect succeeds) or not
SetMongo ==
    /\ Idle
    /\ mongoConnected' = ~mongoConnected
    /\ last' = NoLast
    /\ verdict' = NoVerdict
    /\ UNCHANGED auxVars
    /\ UNCHANGED <<mongoDb, localStore, files, certSecret, lastToken, clock,
                   tampers, packed, issuedDb, issuedLocal>>

\* A process starts with another value of CERT_SECRET
SetSecret(value) ==
    /\ Idle
    /\ value # certSecret
    /\ certSecret' = value
    /\ last' = NoLast
    /\ verdict' = NoVerdict
    /\ UNCHANGED auxVars
    /\ UNCHANGED <<mongoDb, localStore, files, mongoConnected, lastToken, clock,
                   tampers, packed, issuedDb, issuedLocal>>

TamperValues(field) ==
    CASE field = "certificate_id" -> CertIds
      [] field = "recipient_name" -> Names
      [] field = "course_name"    -> {OtherCourse}
      [] field = "issue_date"     -> {OtherDate}
      [] field = "issuer"         -> {OtherIssuer}
      [] field = "generated_at"   -> {IsoNow(9)}

StoreOf(backend) == IF backend = "db" THEN mongoDb ELSE localStore

PutStore(backend, store) ==
    /\ mongoDb' = IF backend = "db" THEN store ELSE mongoDb
    /\ localStore' = IF backend = "db" THEN localStore ELSE store

\* Someone with write access to a store edits one checksum-input field of a
\* stored record and leaves its credentials untouched.
Tamper(backend, i, field, value) ==
    /\ Idle
    /\ tampers < MaxTampers
    /\ i \in 1..Len(StoreOf(backend))
    /\ value \in TamperValues(field)
    /\ StoreOf(backend)[i][field] # value
    /\ PutStore(backend, [StoreOf(backend) EXCEPT ![i][field] = value])
    /\ tampers' = tampers + 1
    /\ last' = NoLast
    /\ verdict' = NoVerdict
    /\ UNCHANGED auxVars
    /\ UNCHANGED <<files, mongoConnected, certSecret, lastToken, clock, packed,
                   issuedDb, issuedLocal>>

\* Someone with write access to a store removes one credential of a stored record.
DropCredential(backend, i, key) ==
    /\ Idle
    /\ tampers < MaxTampers
    /\ i \in 1..Len(StoreOf(backend))
    /\ key \in DOMAIN Credentials(StoreOf(backend)[i])
    /\ LET rec == StoreOf(backend)[i]
           creds == Credentials(rec)
           kept == [k \in DOMAIN creds \ {key} |-> creds[k]]
       IN  PutStore(backend, [StoreOf(backend) EXCEPT ![i]["credentials"] = kept])
    /\ tampers' = tampers + 1
    /\ last' = NoLast
    /\ verdict' = NoVerdict
    /\ UNCHANGED auxVars
    /\ UNCHANGED <<files, mongoConnected, certSecret, lastToken, clock, packed,
                   issuedDb, issuedLocal>>

-----------------------------------------------------------------------------
(* credentials.json under concurrent appenders *)

\* Processes that may run _save_to_local_store on the same file at the same time
NumAppenders == 2
Appenders == 1..NumAppenders

\* credentials.json: whether it exists, whether json.load can read it, and the
\* elements of the JSON array its text spells out
AbsentLog == [exists |-> FALSE, parses |-> FALSE, records |-> <<>>]
JsonLog(records) == [exists |-> TRUE, parses |-> TRUE, records |-> records]

NotAppending == [pc |-> "idle", record |-> EmptyDict, data |-> <<>>]

\* the db_record generate_certificate hands to the store for its n-th caller
IssuedRecord(recipient_name, certificate_number, n) ==
    LET cert_data == CertData(certificate_number, recipient_name, IssueCourse,
                              IssueDate, DefaultIssuer, IsoNow(n))
        full == WithCredentials(cert_data, GenerateToken(n).token_hash,
                                GenerateChecksum(cert_data, None))
    IN  DbRecord(full, IsoNow(n), FileOf(recipient_name))

\* the record process-device hands to the store
DeviceRecord(n) ==
    [device_id           |-> "device-1",
     action_type         |-> "clear",
     size_removed        |-> "1 GB",
     timestamp           |-> "2025-01-01T00:00:00",
     files_deleted_count |-> "1",
     files_deleted       |-> "[a.txt]",
     processed_at        |-> IsoNow(n),
     record_type         |-> "device_cleanup"]

\* what process p may be appending: the record of an issuance with an explicit
\* certificate_number (quick_start.py), of one with a random identifier, or a
\* device record
AppendInputs(p) ==
    {IssuedRecord("Alice", ExplicitId, p), IssuedRecord("Alice", RandomCertId(p), p),
     DeviceRecord(p)}

\* records written by earlier runs
PriorRecords == {IssuedRecord("Bob", ExplicitId, 9), DeviceRecord(9)}

\* an action of an appender leaves the rest of the state alone
AppenderStep(p, next) ==
    /\ appenders' = [appenders EXCEPT ![p] = next]
    /\ UNCHANGED <<mainVars, logBefore, call>>

\* _save_to_local_store(record) is called in process p
SaveToLocalStore(p, record) ==
    /\ appenders[p].pc = "idle"
    /\ AppenderStep(p, [pc |-> "exists", record |-> record, data |-> <<>>])
    /\ UNCHANGED logFile

\* `if not self.local_store_file.exists():`
CheckExists(p) ==
    /\ appenders[p].pc = "exists"
    /\ AppenderStep(p, [appenders[p] EXCEPT !.pc = IF logFile.exists THEN "open"
                                                   ELSE "create"])
    /\ UNCHANGED logFile

\* `self.local_store_file.write_text("[]")`: creates or truncates the file
WriteEmptyLog(p) ==
    /\ appenders[p].pc = "create"
    /\ logFile' = JsonLog(<<>>)
    /\ AppenderStep(p, [appenders[p] EXCEPT !.pc = "open"])

\* `open("r+")` and `data = json.load(f)`, `except Exception: data = []`.  The file
\* exists here: nothing deletes it after the test above.
OpenAndLoad(p) ==
    /\ appenders[p].pc = "open"
    /\ logFile.exists
    /\ AppenderStep(p, [appenders[p] EXCEPT
                            !.pc = "loaded",
                            !.data = IF logFile.parses THEN logFile.records ELSE <<>>])
    /\ UNCHANGED logFile

\* `data.append(record)`, `f.seek(0)`, `json.dump(data, f, indent=2)`,
\* `f.truncate()`, `return True`: the file now holds what this process read
\* plus its record
WriteBack(p) ==
    /\ appenders[p].pc = "loaded"
    /\ logFile' = JsonLog(Append(appenders[p].data, appenders[p].record))
    /\ AppenderStep(p, [appenders[p] EXCEPT !.pc = "done"])

\* json.dump raises part way through the write (OSError: the disk is full):
\* the text is cut inside the array, the truncation never runs, the handler
\* prints "Failed to write local credentials" and returns False
WriteFails(p) ==
    /\ appenders[p].pc = "loaded"
    /\ logFile' = [logFile EXCEPT !.parses = FALSE]
    /\ AppenderStep(p, [appenders[p] EXCEPT !.pc = "failed"])

\* no generate_checksum call is being looked at
NoCall == [fn |-> "none"]

\* the main specification: a single process at a time, whose appends are the
\* atomic steps of GenerateCertificate
AuxIdle ==
    /\ logFile = JsonLog(<<>>)
    /\ appenders = [p \in Appenders |-> NotAppending]
    /\ logBefore = <<>>
    /\ call = NoCall

\* the commands run without MongoDB (generate_certificate and process-device
\* then write to credentials.json), on a file that is absent, empty, or holds
\* a record of an earlier run
InitStore ==
    /\ mongoDb = <<>>
    /\ localStore = <<>>
    /\ files = [f \in {FileOf(name) : name \in Names} |-> NoFile]
    /\ mongoConnected = FALSE
    /\ certSecret = None
    /\ lastToken = None
    /\ clock = 0
    /\ tampers = 0
    /\ packed = [f \in {FileOf(name) : name \in Names} |-> EmptyDict]
    /\ issuedDb = <<>>
    /\ issuedLocal = <<>>
    /\ last = EmptyDict
    /\ verdict = NoVerdict
    /\ logFile \in {AbsentLog, JsonLog(<<>>)} \cup {JsonLog(<<r>>) : r \in PriorRecords}
    /\ logBefore = logFile.records
    /\ appenders = [p \in Appenders |-> NotAppending]
    /\ call = NoCall

NextStore ==
    \/ \E p \in Appenders : \E record \in AppendInputs(p) : SaveToLocalStore(p, record)
    \/ \E p \in Appenders : CheckExists(p)
    \/ \E p \in Appenders : WriteEmptyLog(p)
    \/ \E p \in Appenders : OpenAndLoad(p)
    \/ \E p \in Appenders : WriteBack(p)
    \/ \E p \in Appenders : WriteFails(p)

SpecStore == InitStore /\ [][NextStore]_vars

\* The same commands run one after the other: a call of _save_to_local_store
\* starts when no other call is under way
NoneAppending == \A p \in Appenders : appenders[p].pc \in {"idle", "done", "failed"}

NextStoreSeq ==
    \/ /\ NoneAppending
       /\ \E p \in Appenders : \E record \in AppendInputs(p) : SaveToLocalStore(p, record)
    \/ \E p \in Appenders : CheckExists(p)
    \/ \E p \in Appenders : WriteEmptyLog(p)
    \/ \E p \in Appenders : OpenAndLoad(p)
    \/ \E p \in Appenders : WriteBack(p)
    \/ \E p \in Appenders : WriteFails(p)

SpecStoreSeq == InitStore /\ [][NextStoreSeq]_vars

-----------------------------------------------------------------------------
(* Verification commands: they read the state and produce a verdict *)

ClaimedIds == CertIds \cup {AbsentId}
\* no token, an empty one, a made-up one, the one the last issuance printed
ClaimedTokens == {None, "", FabricatedToken, lastToken}

Verify(result) ==
    /\ Idle
    /\ verdict' = result
    /\ UNCHANGED auxVars
    /\ UNCHANGED <<mongoDb, localStore, files, mongoConnected, certSecret,
                   lastToken, clock, tampers, packed, issuedDb, issuedLocal, last>>

\* The verification command has reported its result and exits
Exit ==
    /\ ~Idle
    /\ verdict' = NoVerdict
    /\ UNCHANGED auxVars
    /\ UNCHANGED <<mongoDb, localStore, files, mongoConnected, certSecret,
                   lastToken, clock, tampers, packed, issuedDb, issuedLocal, last>>

DoVerifyCertificate ==
    \E id \in ClaimedIds, name \in Names, course \in Courses, token \in ClaimedTokens :
        Verify(VerifyCertificate(id, name, course, token))

DoVerifyFile ==
    \E f \in Files, token \in ClaimedTokens : Verify(VerifyFile(f, token))

DoToolVerifyFile ==
    \E f \in Files, token \in ClaimedTokens : Verify(ToolVerifyFile(f, token))

DoToolVerifyDb ==
    \E id \in ClaimedIds, name \in Names, course \in Courses \cup {None},
       token \in ClaimedTokens :
        Verify(ToolVerifyDb(id, name, course, token))

DoGenerateCertificate ==
    \E name \in Names, number \in {None, ExplicitId}, store \in BOOLEAN,
       embedOk \in BOOLEAN, storeOk \in BOOLEAN :
        GenerateCertificate(name, number, store, embedOk, storeOk)

DoSetSecret == \E value \in {None, ConfiguredSecret} : SetSecret(value)

DoTamper ==
    \E backend \in {"db", "local_store"}, i \in 1..MaxIssues, field \in DOMAIN RecomputeData(EmptyDict) :
        \E value \in TamperValues(field) : Tamper(backend, i, field, value)

DoDropCredential ==
    \E backend \in {"db", "local_store"}, i \in 1..MaxIssues, key \in {"token_hash", "checksum"} :
        DropCredential(backend, i, key)

Init ==
    /\ mongoDb = <<>>
    /\ localStore = <<>>
    /\ files = [f \in Files |-> NoFile]
    /\ mongoConnected \in BOOLEAN
    /\ certSecret \in {None, ConfiguredSecret}
    /\ lastToken = None
    /\ clock = 0
    /\ tampers = 0
    /\ packed = [f \in Files |-> EmptyDict]
    /\ issuedDb = <<>>
    /\ issuedLocal = <<>>
    /\ last = NoLast
    /\ verdict = NoVerdict
    /\ AuxIdle

Next ==
    \/ DoGenerateCertificate
    \/ DoVerifyCertificate
    \/ DoVerifyFile
    \/ DoToolVerifyFile
    \/ DoToolVerifyDb
    \/ SetMongo
    \/ DoSetSecret
    \/ DoTamper
    \/ DoDropCredential
    \/ Exit

Spec == Init /\ [][Next]_vars

\* The commands of the repository alone: nobody edits a store out of band
NextProgram ==
    \/ DoGenerateCertificate
    \/ DoVerifyCertificate
    \/ DoVerifyFile
    \/ DoToolVerifyFile
    \/ DoToolVerifyDb
    \/ SetMongo
    \/ DoSetSecret
    \/ Exit

SpecProgram == Init /\ [][NextProgram]_vars

-----------------------------------------------------------------------------
(* The carrier codec on arbitrary payloads and arbitrary carriers *)

\* creator strings embed_in_pdf_metadata did not write, after "CertGen|" or not
ForeignCarriers ==
    {DefaultCreator,
     "",
     Marker \o "123",
     Marker \o "null",
     Marker \o DumpsCompact(IdlessPayload),
     Marker \o Take(DumpsCompact(EmbedPayload(PackData(ExplicitId, TRUE))), 40),
     Marker \o "no braces here",
     Marker \o "}{",
     Marker \o "x{not json}",
     Marker \o "Acme " \o DumpsCompact(EmbedPayload(PackData(ExplicitId, TRUE))) \o " (v2)",
     "Acme " \o Marker \o DumpsCompact(EmbedPayload(PackData(ExplicitId, TRUE)))}

\* embed_in_pdf_metadata(c, cert_data) and c.save() write the file
PackInto(f, cert_data) ==
    /\ Idle
    /\ files' = [files EXCEPT ![f] = EmbedInPdfMetadata(cert_data, TRUE)]
    /\ packed' = [packed EXCEPT ![f] = EmbedPayload(cert_data)]
    /\ UNCHANGED auxVars
    /\ UNCHANGED <<mongoDb, localStore, mongoConnected, certSecret, lastToken, clock,
                   tampers, issuedDb, issuedLocal, last, verdict>>

\* a PDF whose creator string is the given one is put at the path
PutCarrier(f, carrier) ==
    /\ Idle
    /\ files' = [files EXCEPT ![f] = carrier]
    /\ packed' = [packed EXCEPT ![f] = EmptyDict]
    /\ UNCHANGED auxVars
    /\ UNCHANGED <<mongoDb, localStore, mongoConnected, certSecret, lastToken, clock,
                   tampers, issuedDb, issuedLocal, last, verdict>>

\* MongoDB reachable (and empty) or not; credentials.json empty or holding a
\* device record of process-device
InitCodec ==
    /\ mongoDb = <<>>
    /\ localStore \in {<<>>, <<DeviceRecord(9)>>}
    /\ files = [f \in Files |-> NoFile]
    /\ mongoConnected \in BOOLEAN
    /\ certSecret = None
    /\ lastToken = None
    /\ clock = 0
    /\ tampers = 0
    /\ packed = [f \in Files |-> EmptyDict]
    /\ issuedDb = <<>>
    /\ issuedLocal = localStore
    /\ last = NoLast
    /\ verdict = NoVerdict
    /\ AuxIdle

NextCodec ==
    \/ \E f \in Files, cert_data \in PackInputs : PackInto(f, cert_data)
    \/ \E f \in Files, carrier \in ForeignCarriers : PutCarrier(f, carrier)
    \/ DoVerifyFile
    \/ DoToolVerifyFile
    \/ Exit

SpecCodec == InitCodec /\ [][NextCodec]_vars

-----------------------------------------------------------------------------
(* generate_checksum on field sets built in different orders *)

\* the orders in which the items of a dict can have been inserted
Orders(items) ==
    {[i \in 1..Len(items) |-> items[p[i]]] : p \in Permutations(1..Len(items))}

\* field sets: three flat fields in every order, for two issue dates, and a
\* field set with a nested dict, both levels in every order
FieldSetInputs ==
    UNION {Orders(<<Str("certificate_id", ExplicitId), Str("recipient_name", "Alice"),
                    Str("issue_date", issue_date)>>) : issue_date \in {IssueDate, OtherDate}}
    \cup UNION {Orders(<<Str("certificate_id", ExplicitId), Sub("issuer", inner)>>) :
                  inner \in Orders(<<Str("course_name", IssueCourse),
                                     Str("issue_date", IssueDate)>>)}

\* generate_checksum is about to be called on two field sets with one secret
\* argument, in certificate_generator and in verify_tool
PendingCall(data, other, secret) ==
    [fn |-> "generate_checksum", data |-> data, other |-> other, secret |-> secret,
     returned |-> FALSE, encoded |-> <<>>, sums |-> <<>>, tool |-> <<>>,
     echoed |-> <<>>]

\* the calls return: the text json.dumps fed to the HMAC and the checksum of
\* each field set, from HiddenMetadata.generate_checksum and from
\* verify_tool.generate_checksum.  echoed is what the calls wrote for the
\* operator: neither function has a click.echo, print or logging statement.
CallGenerateChecksum ==
    /\ call # NoCall
    /\ ~call.returned
    /\ call' = [call EXCEPT
                   !.returned = TRUE,
                   !.encoded = <<JsonDumps(call.data, TRUE), JsonDumps(call.other, TRUE)>>,
                   !.sums = <<GenerateChecksumOf(call.data, call.secret),
                              GenerateChecksumOf(call.other, call.secret)>>,
                   !.tool = <<ToolGenerateChecksum(call.data, call.secret),
                              ToolGenerateChecksum(call.other, call.secret)>>,
                   !.echoed = <<>>]
    /\ UNCHANGED <<mainVars, logFile, appenders, logBefore>>

\* CERT_SECRET unset, set, or set to the empty string; the secret argument left
\* out, a secret, or the empty string
InitChecksum ==
    /\ mongoDb = <<>>
    /\ localStore = <<>>
    /\ files = [f \in Files |-> NoFile]
    /\ mongoConnected = FALSE
    /\ certSecret \in {None, ConfiguredSecret, ""}
    /\ lastToken = None
    /\ clock = 0
    /\ tampers = 0
    /\ packed = [f \in Files |-> EmptyDict]
    /\ issuedDb = <<>>
    /\ issuedLocal = <<>>
    /\ last = NoLast
    /\ verdict = NoVerdict
    /\ logFile = JsonLog(<<>>)
    /\ appenders = [p \in Appenders |-> NotAppending]
    /\ logBefore = <<>>
    /\ call \in {PendingCall(data, other, secret) :
                    data \in FieldSetInputs, other \in FieldSetInputs,
                    secret \in {None, ExplicitSecret, ""}}

NextChecksum == CallGenerateChecksum

SpecChecksum == InitChecksum /\ [][NextChecksum]_vars

-----------------------------------------------------------------------------
(* generate_certificate step by step, with verify-file commands of other
   processes in between *)

\* generate_certificate up to c.save(): the carrier is embedded and the file
\* written; call holds the issuance in flight, with the db_record it is about
\* to hand to a store.
SaveArtifact(recipient_name, certificate_number, embedOk) ==
    /\ Idle
    /\ call = NoCall
    /\ clock < MaxIssues
    /\ LET n == clock + 1
           id == IF certificate_number = None THEN RandomCertId(n)
                 ELSE certificate_number
           cert_data == CertData(id, recipient_name, IssueCourse, IssueDate,
                                 DefaultIssuer, IsoNow(n))
           full == WithCredentials(cert_data, GenerateToken(n).token_hash,
                                   GenerateChecksum(cert_data, None))
           filepath == FileOf(recipient_name)
       IN  /\ files' = [files EXCEPT ![filepath] = EmbedInPdfMetadata(full, embedOk)]
           /\ packed' = [packed EXCEPT ![filepath] =
                              IF embedOk THEN EmbedPayload(full) ELSE EmptyDict]
           /\ clock' = n
           /\ call' = [fn |-> "generate_certificate", path |-> filepath,
                       record |-> DbRecord(full, IsoNow(n), filepath),
                       token |-> GenerateToken(n).token]
    /\ last' = NoLast
    /\ UNCHANGED <<mongoDb, localStore, mongoConnected, certSecret, lastToken,
                   tampers, issuedDb, issuedLocal, verdict>>
    /\ UNCHANGED <<logFile, appenders, logBefore>>

\* generate_certificate from `if store_in_db:` to its return: the record goes
\* to MongoDB when connected, else to the local log
StoreRecord(storeOk) ==
    /\ Idle
    /\ call # NoCall
    /\ LET toMongo == mongoConnected /\ storeOk
           toLocal == ~mongoConnected /\ storeOk
       IN  /\ mongoDb' = IF toMongo THEN Append(mongoDb, call.record) ELSE mongoDb
           /\ localStore' = IF toLocal THEN Append(localStore, call.record)
                            ELSE localStore
           /\ issuedDb' = IF toMongo THEN Append(issuedDb, call.record) ELSE issuedDb
           /\ issuedLocal' = IF toLocal THEN Append(issuedLocal, call.record)
                             ELSE issuedLocal
    /\ lastToken' = call.token
    /\ call' = NoCall
    /\ UNCHANGED <<files, mongoConnected, certSecret, clock, tampers, packed, last,
                   verdict>>
    /\ UNCHANGED <<logFile, appenders, logBefore>>

NextWindow ==
    \/ \E name \in Names, number \in {None, ExplicitId}, embedOk \in BOOLEAN :
          SaveArtifact(name, number, embedOk)
    \/ \E storeOk \in BOOLEAN : StoreRecord(storeOk)
    \/ DoVerifyFile
    \/ DoToolVerifyFile
    \/ Exit

SpecWindow == Init /\ [][NextWindow]_vars

-----------------------------------------------------------------------------
(* generate_batch, as test_batch_generation and quick_start call it *)

\* recipients lists of up to three entries
RecipientLists ==
    UNION {[1..n -> [name : Names, course : Courses]] : n \in 0..3}

\* generator.generate_batch(recipients).  CertificateGenerator defines no
\* generate_batch (nor does any base class: it has none), so the attribute
\* lookup raises AttributeError before anything is issued.
CallGenerateBatch ==
    /\ call # NoCall
    /\ ~call.returned
    /\ call' = [call EXCEPT !.returned = TRUE, !.raised = "AttributeError"]
    /\ UNCHANGED <<mainVars, logFile, appenders, logBefore>>

InitBatch ==
    /\ mongoDb = <<>>
    /\ localStore = <<>>
    /\ files = [f \in Files |-> NoFile]
    /\ mongoConnected \in BOOLEAN
    /\ certSecret \in {None, ConfiguredSecret}
    /\ lastToken = None
    /\ clock = 0
    /\ tampers = 0
    /\ packed = [f \in Files |-> EmptyDict]
    /\ issuedDb = <<>>
    /\ issuedLocal = <<>>
    /\ last = NoLast
    /\ verdict = NoVerdict
    /\ logFile = JsonLog(<<>>)
    /\ appenders = [p \in Appenders |-> NotAppending]
    /\ logBefore = <<>>
    /\ call \in {[fn |-> "generate_batch", recipients |-> recipients,
                  returned |-> FALSE, raised |-> None, paths |-> <<>>] :
                    recipients \in RecipientLists}

SpecBatch == InitBatch /\ [][CallGenerateBatch]_vars

-----------------------------------------------------------------------------
(* Vocabulary of the properties *)

IdOps == {"verify_certificate", "tool_verify_db"}
FileOps == {"verify_file", "tool_verify_file"}
Ran == verdict.op \in IdOps \cup FileOps

\* the payload carried by the file a verify-file command was given
PayloadInHand == ExtractPayloadFromPdf(files[verdict.args.file])

\* the identifier the command looks up
LookedUpId ==
    IF verdict.op \in FileOps THEN Get(PayloadInHand, "id") ELSE verdict.args.cert_id

\* the store the specification has the lookup consult: the remote store when it
\* is reachable, else the local append-log
PreferredStore == IF mongoConnected THEN "db" ELSE "local_store"

\* position of the record the lookup returns in a store (0: no such record)
PositionIn(store, cert_id) ==
    IF \E i \in 1..Len(store) : Get(store[i], "certificate_id") = cert_id
    THEN CHOOSE i \in 1..Len(store) :
            /\ Get(store[i], "certificate_id") = cert_id
            /\ \A j \in 1..(i - 1) : Get(store[j], "certificate_id") # cert_id
    ELSE 0

\* the command holds a record: it was given an identifier (for a file, a payload
\* with an identifier) and the lookup of its store returned a record
HasRecord ==
    /\ Ran
    /\ "lookup" \in verdict.steps
    /\ verdict.op \in FileOps \/ verdict.op = "tool_verify_db" \/ mongoConnected
    /\ PositionIn(StoreOf(PreferredStore), LookedUpId) > 0

FoundPosition == PositionIn(StoreOf(PreferredStore), LookedUpId)
FoundRecord == StoreOf(PreferredStore)[FoundPosition]
\* the same record as generate_certificate stored it
FoundAsIssued ==
    (IF PreferredStore = "db" THEN issuedDb ELSE issuedLocal)[FoundPosition]

NameMismatchReasons == {"Recipient name mismatch"}
CourseMismatchReasons == {"Course name mismatch"}
FieldMismatchReasons == NameMismatchReasons \cup CourseMismatchReasons
TokenMismatchReasons ==
    {"Token mismatch", "Token mismatch (local store)", "Token mismatch (metadata)"}
ChecksumMismatchReasons ==
    {"Checksum mismatch - data may have been tampered",
     "Checksum mismatch - data differs from DB",
     "Checksum mismatch - data differs from local store",
     "Checksum mismatch - data differs"}

ChecksumInputs == {"certificate_id", "recipient_name", "course_name",
                   "issue_date", "issuer", "generated_at"}

-----------------------------------------------------------------------------
(* Properties *)

\* C1: a verification operation returns a positive verdict only after the
\* recomputed checksum was compared with the stored checksum (and matched);
\* a path that skipped the comparison never ends in a positive verdict.
C1_PositiveOnlyAfterChecksum ==
    (Ran /\ verdict.verified) => "checksum" \in verdict.steps

\* C2: with no record available from any store (MongoDB not connected, no
\* matching record in the local log) and a payload in hand that carries a
\* checksum or token_hash, verify-file never ends in a verified verdict.
C2_MetadataOnlyNeverVerified ==
    ( /\ verdict.op \in FileOps
      /\ "lookup" \in verdict.steps
      /\ ~mongoConnected
      /\ PositionIn(localStore, LookedUpId) = 0
      /\ (Truthy(Get(PayloadInHand, "checksum")) \/ Truthy(Get(PayloadInHand, "token_hash"))) )
    => ~verdict.verified


\* C3: when the record a verification holds has a checksum-input field that
\* differs from what generate_certificate stored, with the stored checksum
\* untouched, a verification that gets past the lookup, field and token steps
\* ends with a checksum-mismatch verdict, never with a positive one.
C3_TamperDetected ==
    ( /\ HasRecord
      /\ \E k \in ChecksumInputs : FoundRecord[k] # FoundAsIssued[k]
      /\ FoundRecord["credentials"] = FoundAsIssued["credentials"]
      /\ verdict.reason \notin FieldMismatchReasons \cup TokenMismatchReasons )
    => (~verdict.verified /\ verdict.reason \in ChecksumMismatchReasons)

\* C3 witness: a verification of a record whose issue_date was changed in the
\* store got past the token step (a matching token was supplied) and ran
C3_Witness ==
    /\ HasRecord
    /\ FoundRecord["issue_date"] # FoundAsIssued["issue_date"]
    /\ FoundRecord["credentials"] = FoundAsIssued["credentials"]
    /\ "token" \in verdict.steps
    /\ verdict.reason \in ChecksumMismatchReasons

\* the token step of the command fails: a token the step checks (a non-empty
\* one) was supplied and its SHA-256 digest is not the stored token_hash
TokenStepFails ==
    /\ verdict.args.token \notin {None, ""}
    /\ Sha256Hex(verdict.args.token) # Get(Credentials(FoundRecord), "token_hash")

\* C4: verify_certificate and verify-db report the first failing step in the
\* order lookup, recipient_name, course_name, token, checksum, and run no later
\* step: a differing recipient_name is a name mismatch whatever the token and
\* the checksum are, a differing course_name comes next, and a token mismatch
\* is reported in preference to a checksum mismatch.
C4_StrictOrder ==
    (HasRecord /\ verdict.op \in IdOps) =>
        LET nameDiffers == Get(FoundRecord, "recipient_name") # verdict.args.name
            courseDiffers == Get(FoundRecord, "course_name") # verdict.args.course
        IN  /\ nameDiffers =>
                /\ verdict.reason \in NameMismatchReasons
                /\ verdict.steps = {"lookup", "name"}
            /\ (~nameDiffers /\ courseDiffers) =>
                /\ verdict.reason \in CourseMismatchReasons
                /\ verdict.steps = {"lookup", "name", "course"}
            /\ (~nameDiffers /\ ~courseDiffers /\ TokenStepFails) =>
                /\ verdict.reason \in TokenMismatchReasons
                /\ verdict.steps = {"lookup", "name", "course", "token"}

\* C4 witness: a name mismatch was reported for a record whose token check and
\* whose checksum comparison would both have failed
C4_Witness ==
    /\ HasRecord
    /\ verdict.op \in IdOps
    /\ verdict.reason \in NameMismatchReasons
    /\ TokenStepFails
    /\ \E k \in ChecksumInputs : FoundRecord[k] # FoundAsIssued[k]


\* C5: right after generate_certificate has stored a record (in MongoDB or in
\* the local log), verifying by identifier with the same identifier, recipient
\* name and course, with no token or with the token of that issuance, is
\* positive, whichever backend received the record.
C5_IssueThenVerifyOk ==
    ( /\ verdict.op \in IdOps
      /\ TruthyDict(last)
      /\ last.backend # None
      /\ verdict.args.cert_id = last.record["certificate_id"]
      /\ verdict.args.name = last.record["recipient_name"]
      /\ verdict.args.course = last.record["course_name"]
      /\ verdict.args.token \in {None, last.token} )
    => verdict.verified

\* C6: a verification by identifier run while MongoDB is absent or unreachable,
\* with a record of that identifier in the local credentials.json log, finds
\* the record and goes on to the field step.
C6_LocalFallback ==
    ( /\ verdict.op \in IdOps
      /\ ~mongoConnected
      /\ PositionIn(localStore, verdict.args.cert_id) > 0 )
    => "name" \in verdict.steps

\* C7: a field the caller did not supply is not compared: verify-db run
\* without --course never ends in a course mismatch.
C7_UnsuppliedFieldNotCompared ==
    (verdict.op = "tool_verify_db" /\ verdict.args.course = None)
    => verdict.reason \notin CourseMismatchReasons

\* the command got past the lookup and field steps with a record in hand
PastFieldSteps ==
    /\ HasRecord
    /\ verdict.reason \notin FieldMismatchReasons

RawTokens == {TokenUrlsafe(n) : n \in 1..clock}

\* every value a stored record holds, its credentials included
ValuesOf(rec) ==
    {rec[k] : k \in DOMAIN rec \ {"credentials"}}
    \cup {Credentials(rec)[k] : k \in DOMAIN Credentials(rec)}

StoredRecords ==
    {mongoDb[i] : i \in 1..Len(mongoDb)} \cup {localStore[i] : i \in 1..Len(localStore)}

EmbeddedPayloads == {ExtractPayloadFromPdf(files[f]) : f \in Files}

\* C9: no record in MongoDB or in the local log and no payload embedded in a
\* file holds a raw token, under any key; records and payloads hold its SHA-256
\* digest, and the raw token is in the issuing process (_last_token).
C9_RawTokenNeverPersisted ==
    /\ \A rec \in StoredRecords :
        /\ ValuesOf(rec) \cap RawTokens = {}
        /\ "token" \notin DOMAIN rec \cup DOMAIN Credentials(rec)
    /\ \A payload \in EmbeddedPayloads :
        /\ {payload[k] : k \in DOMAIN payload} \cap RawTokens = {}
        /\ "token" \notin DOMAIN payload
    /\ \A f \in Files : \A t \in RawTokens : Find(files[f], "\"" \o t \o "\"") = 0
    /\ clock > 0 => lastToken \in RawTokens

\* C9 witness: a certificate was issued, its record stored and its payload
\* embedded, both holding the digest of the token the issuing process holds
C9_Witness ==
    /\ lastToken \in RawTokens
    /\ \E rec \in StoredRecords : Get(Credentials(rec), "token_hash") = Sha256Hex(lastToken)
    /\ \E payload \in EmbeddedPayloads : Get(payload, "token_hash") = Sha256Hex(lastToken)

\* what identifies the holder of a certificate
IdentifyingValues == Names \cup Courses \cup {DefaultIssuer, OtherIssuer, IssueDate, OtherDate}

\* C10: the payload embedded in a file has the keys id, token_hash and checksum
\* only, and none of its values is the recipient name, the course, the issuer or
\* another identifying field of the record.
C10_PayloadMetadataOnly ==
    \A f \in Files :
        LET payload == ExtractPayloadFromPdf(files[f])
        IN  /\ DOMAIN payload \subseteq {"id", "token_hash", "checksum"}
            /\ {payload[k] : k \in DOMAIN payload} \cap IdentifyingValues = {}
            /\ \A v \in IdentifyingValues : Find(files[f], "\"" \o v \o "\"") = 0

\* C10 witness: a file carries an embedded payload with all three members
C10_Witness ==
    \E f \in Files : DOMAIN ExtractPayloadFromPdf(files[f]) = {"id", "token_hash", "checksum"}

\* the elements of a sequence
Range(seq) == {seq[i] : i \in 1..Len(seq)}
IsPrefix(a, b) == Len(a) <= Len(b) /\ SubSeq(b, 1, Len(a)) = a

\* every call of _save_to_local_store has returned True
AllAppended == \A p \in Appenders : appenders[p].pc = "done"

\* C11: when the processes that ran _save_to_local_store on the same
\* credentials.json, in any interleaving of their steps, have all returned
\* True, the log is a readable JSON array that holds the record of each of
\* them and every record that was in the log before.
C11_ConcurrentAppendsKeepAll ==
    AllAppended =>
        /\ logFile.parses
        /\ Range(logBefore) \subseteq Range(logFile.records)
        /\ \A p \in Appenders : appenders[p].record \in Range(logFile.records)

\* C12: the records of the local store only grow: whatever state the log file
\* is in, no step of an issuance or of a device-record append removes, changes
\* or moves a record the file held before the step.
C12_RecordsImmutable ==
    [][IsPrefix(logFile.records, logFile'.records)]_vars

\* C13: no two records of the record store share a certificate_id, whether the
\* callers of generate_certificate passed certificate_number or not.
C13_NoIdentifierReuse ==
    \A i, j \in 1..Len(logFile.records) :
        ( /\ i # j
          /\ "certificate_id" \in DOMAIN logFile.records[i]
          /\ "certificate_id" \in DOMAIN logFile.records[j] )
        => logFile.records[i]["certificate_id"] # logFile.records[j]["certificate_id"]

\* the file a verify-file command was given exists
FileGiven == verdict.op \in FileOps /\ files[verdict.args.file] # NoFile
CarrierInHand == files[verdict.args.file]
HasMarker(carrier) == Truthy(carrier) /\ Find(carrier, Marker) > 0

\* the verdicts that stand for NotFound: no payload could be unpacked
NoMarkerReasons ==
    {"No embedded certificate metadata found",
     "No embedded certificate metadata found in PDF"}
NotFoundReasons ==
    NoMarkerReasons \cup {"Embedded metadata malformed", "Error reading PDF: JSONDecodeError"}
Crashed == Find(verdict.reason, "Traceback") > 0

\* the file was written by embed_in_pdf_metadata with a payload that fits
PackedWithinLimit(f) ==
    /\ TruthyDict(packed[f])
    /\ Len(DumpsCompact(packed[f])) <= MaxHidden

\* C14: for a payload {id, token_hash, checksum} whose serialisation is within
\* the size limit, unpacking the creator string embed_in_pdf_metadata wrote
\* gives back the payload, in extract_payload_from_pdf and in verify_file's
\* parser (which then does not report missing or malformed metadata).
C14_RoundTripPacking ==
    \A f \in Files :
        PackedWithinLimit(f) =>
            /\ ExtractPayloadFromPdf(files[f]) = packed[f]
            /\ (verdict.op \in FileOps /\ verdict.args.file = f) =>
                   /\ verdict.reason \notin NotFoundReasons
                   /\ verdict.reason # "Error reading PDF: AttributeError"
                   /\ ~Crashed

\* C14 witness: verify_file has unpacked a payload whose serialisation has
\* exactly the 200 characters of the limit
C14_Witness ==
    \E f \in Files :
        /\ PackedWithinLimit(f)
        /\ Len(DumpsCompact(packed[f])) = MaxHidden
        /\ ExtractPayloadFromPdf(files[f]) = packed[f]
        /\ verdict.op = "verify_file"
        /\ verdict.args.file = f
        /\ "lookup" \in verdict.steps

\* C15 as claimed: the creator string embed_in_pdf_metadata writes, marker
\* included, is at most 200 characters long.
C15_CarrierAtMost200 ==
    \A f \in Files : TruthyDict(packed[f]) => Len(files[f]) <= MaxHidden

\* C15 as amended: the creator string is the marker followed by the first 200
\* characters of the serialised payload (all of it when it is shorter), so it
\* is at most 208 characters long, marker included.
C15_CarrierAtMostMarkerPlus200 ==
    \A f \in Files :
        TruthyDict(packed[f]) =>
            LET hidden_str == DumpsCompact(packed[f])
                kept == Len(files[f]) - Len(Marker)
            IN  /\ Len(files[f]) <= Len(Marker) + MaxHidden
                /\ SubSeq(files[f], 1, Len(Marker)) = Marker
                /\ kept = (IF Len(hidden_str) < MaxHidden THEN Len(hidden_str) ELSE MaxHidden)
                /\ SubSeq(files[f], Len(Marker) + 1, Len(files[f])) = SubSeq(hidden_str, 1, kept)

\* C15 witness: a payload that serialises to more than 200 characters was
\* embedded, cut to 200 characters after the marker
C15_Witness ==
    \E f \in Files :
        /\ TruthyDict(packed[f])
        /\ Len(DumpsCompact(packed[f])) > MaxHidden
        /\ Len(files[f]) = Len(Marker) + MaxHidden

\* what parsing the slice from the first "{" to the last "}" gives
RecoveredFrom(raw) ==
    LET start == Find(raw, "{")
        end == RFind(raw, "}")
    IN  IF start = 0 \/ end = 0 THEN ParseError ELSE JsonLoads(SubSeq(raw, start, end))

InputError(carrier) ==
    \/ ~HasMarker(carrier)
    \/ LET payload == ExtractPayloadFromPdf(carrier)
       IN  \/ ~IsDict(payload)
           \/ ~TruthyDict(payload)
           \/ ~Truthy(Get(payload, "id"))

\* C17: for every carrier that is an input error, each verify-file operation
\* ends with a verdict that is not positive and carries a reason, and never
\* with an unhandled exception.
C17_InputErrorsNeverCrash ==
    (FileGiven /\ InputError(CarrierInHand)) =>
        /\ ~verdict.verified
        /\ Truthy(verdict.reason)
        /\ ~Crashed

\* what a dict holds, whatever the order of its items, at every level
RECURSIVE Content(_)
Content(items) ==
    {<<items[i].key, items[i].kind, items[i].str, Content(items[i].dict)>> :
        i \in 1..Len(items)}

\* C18: two field sets with the same keys and values at every nesting level,
\* built in different orders, are encoded to the same text for the HMAC, and
\* generate_checksum returns the same value for both under the same secret, in
\* certificate_generator and in verify_tool.
C18_CanonicalEncoding ==
    (call # NoCall /\ call.returned /\ Content(call.data) = Content(call.other)) =>
        /\ call.encoded[1] = call.encoded[2]
        /\ call.sums[1] = call.sums[2]
        /\ call.tool[1] = call.tool[2]

\* C18 witness: generate_checksum has returned for two field sets with the
\* same content whose nested dict was built in different orders
C18_Witness ==
    /\ call # NoCall
    /\ call.returned
    /\ Content(call.data) = Content(call.other)
    /\ \E i, j \in 1..2 :
        /\ call.data[i].kind = "dict"
        /\ call.other[j].kind = "dict"
        /\ call.data[i].dict # call.other[j].dict
    /\ call.sums[1] = call.sums[2]

\* a flat dict as the function from its keys to its values
AsDict(items) ==
    [k \in {items[i].key : i \in 1..Len(items)} |->
        items[CHOOSE i \in 1..Len(items) : items[i].key = k].str]
IsFlat(items) == \A i \in 1..Len(items) : items[i].kind = "str"

\* C19: generate_checksum keys the HMAC with the secret argument whenever one
\* is passed (any value other than None, the empty string included), else with
\* the value of CERT_SECRET when it is set, else with "default-secret"; and
\* verify_tool.generate_checksum returns the same checksum as
\* HiddenMetadata.generate_checksum for the same fields in the same
\* configuration.
C19_SecretResolution ==
    (call # NoCall /\ call.returned) =>
        LET key == IF call.secret # None THEN call.secret
                   ELSE IF certSecret # None THEN certSecret
                   ELSE "default-secret"
        IN  /\ call.sums[1] = HmacSha256Hex16(key, call.encoded[1])
            /\ call.tool[1] = call.sums[1]
            /\ IsFlat(call.data) =>
                   GenerateChecksum(AsDict(call.data), call.secret) = call.sums[1]

\* C19 witness: generate_checksum was passed the empty string as secret while
\* CERT_SECRET is set, and keyed the HMAC with the empty string
C19_Witness ==
    /\ call # NoCall
    /\ call.returned
    /\ call.secret = ""
    /\ certSecret = ConfiguredSecret
    /\ call.sums[1] = HmacSha256Hex16("", call.encoded[1])
    /\ call.sums[1] # HmacSha256Hex16(ConfiguredSecret, call.encoded[1])

\* C20: when embed_in_pdf_metadata raises internally or the store write fails
\* (the MongoDB insert or the local log write), generate_certificate still
\* returns the path of the certificate, the file at that path has been saved
\* (without the hidden payload when the embedding failed) and the token of the
\* issuance is kept; a store that failed holds no record of it.
C20_IssuanceAlwaysSucceeds ==
    (TruthyDict(last) /\ last.failed # {}) =>
        /\ last.path = FileOf(last.record["recipient_name"])
        /\ files[last.path] # NoFile
        /\ ("embed" \in last.failed) => files[last.path] = DefaultCreator
        /\ ("embed" \notin last.failed) => HasMarker(files[last.path])
        /\ lastToken = last.token
        /\ ("store" \in last.failed) => last.backend = None

\* C20 witness: an issuance whose embedding and whose store write both failed
\* has returned the path of a saved file
C20_Witness ==
    /\ TruthyDict(last)
    /\ last.failed = {"embed", "store"}
    /\ files[last.path] = DefaultCreator
    /\ last.path \in Files

\* C21: when generate_checksum is given no secret and CERT_SECRET is not set,
\* it does not fail, it keys the HMAC with the default secret, and it writes a
\* message for the operator about it.
C21_MissingSecretFlagged ==
    (call # NoCall /\ call.returned /\ call.secret = None /\ certSecret = None) =>
        /\ call.sums[1] = HmacSha256Hex16(DefaultSecret, call.encoded[1])
        /\ call.tool[1] = HmacSha256Hex16(DefaultSecret, call.encoded[1])
        /\ call.echoed # <<>>

\* mutation of ReturnedDict: the result echoes the token the caller supplied
ReturnedDict_EchoesToken ==
    IF verdict.op = "verify_certificate"
    THEN LET record == RetrieveCertificate(verdict.args.cert_id)
         IN  [verified       |-> "True",
              certificate_id |-> verdict.args.cert_id,
              recipient_name |-> verdict.args.name,
              course_name    |-> verdict.args.course,
              issue_date     |-> Get(record, "issue_date"),
              issuer         |-> Get(record, "issuer"),
              generated_at   |-> Get(record, "generated_at"),
              token          |-> verdict.args.token]
    ELSE [verified |-> "True", certificate_id |-> Get(PayloadInHand, "id"),
          from |-> verdict.from, token |-> verdict.args.token]

\* the dict verify_certificate and verify_file return with "verified": True,
\* for the call whose verdict is on display
ReturnedDict ==
    IF verdict.op = "verify_certificate"
    THEN LET record == RetrieveCertificate(verdict.args.cert_id)
         IN  [verified       |-> "True",
              certificate_id |-> verdict.args.cert_id,
              recipient_name |-> verdict.args.name,
              course_name    |-> verdict.args.course,
              issue_date     |-> Get(record, "issue_date"),
              issuer         |-> Get(record, "issuer"),
              generated_at   |-> Get(record, "generated_at")]
    ELSE [verified |-> "True", certificate_id |-> Get(PayloadInHand, "id"),
          from |-> verdict.from]

GeneratorOps == {"verify_certificate", "verify_file"}

\* C22: the dict verify_certificate or verify_file returns with a positive
\* verdict has no secret and no token member, and none of its values is the
\* shared secret, a raw token that was issued, or the token the caller supplied.
C22_SafeExcerpt ==
    (verdict.op \in GeneratorOps /\ verdict.verified) =>
        /\ DOMAIN ReturnedDict \cap {"secret", "token"} = {}
        /\ \A k \in DOMAIN ReturnedDict :
            /\ ReturnedDict[k] \notin RawTokens \cup {DefaultSecret, ConfiguredSecret}
            /\ Truthy(verdict.args.token) => ReturnedDict[k] # verdict.args.token

\* C22 witness: verify_certificate was given the raw token of the issuance and
\* returned a positive verdict with the stored issuer
C22_Witness ==
    /\ verdict.op = "verify_certificate"
    /\ verdict.verified
    /\ verdict.args.token \in RawTokens
    /\ ReturnedDict.issuer = DefaultIssuer

\* C23: generate_batch(recipients) returns normally a list with one path per
\* entry of recipients, and a file exists at each of these paths.
C23_BatchIssuesOnePerEntry ==
    (call # NoCall /\ call.returned) =>
        /\ call.raised = None
        /\ Len(call.paths) = Len(call.recipients)
        /\ \A i \in 1..Len(call.paths) : files[call.paths[i]] # NoFile

\* the cert_data generate_certificate hashed for a record it stored: the record
\* without what was attached after the checksum was computed
HashedAtIssuance(issued) ==
    [k \in DOMAIN issued \ {"credentials", "created_at", "file_path"} |-> issued[k]]

\* C24: in every verification path that holds a stored record which is as
\* generate_certificate stored it, the field set rebuilt for the checksum has
\* exactly the keys and values of the field set hashed at issuance
\* (certificate_id, recipient_name, course_name, issue_date, issuer,
\* generated_at; no credentials, created_at or file_path), and when the secret
\* is the one of the issuance the verification does not end in a checksum
\* mismatch.
C24_KeySetLockstep ==
    (HasRecord /\ FoundRecord = FoundAsIssued) =>
        /\ RecomputeData(FoundRecord) = HashedAtIssuance(FoundAsIssued)
        /\ DOMAIN RecomputeData(FoundRecord) = ChecksumInputs
        /\ StoredChecksum(FoundRecord) = GenerateChecksum(HashedAtIssuance(FoundAsIssued), None)
            => verdict.reason \notin ChecksumMismatchReasons

\* C24 witness: verify-file of verify_tool found the untouched record in the
\* local log, compared the recomputed checksum with the stored one and verified
C24_Witness ==
    /\ HasRecord
    /\ FoundRecord = FoundAsIssued
    /\ verdict.op = "tool_verify_file"
    /\ verdict.from = "local_store"
    /\ "checksum" \in verdict.steps
    /\ verdict.verified

\* C25: the record a verify-file command gets from its lookup is a certificate
\* record: an entry of credentials.json written by process-device, which has
\* no certificate_id, is never the record the command holds and never leads to
\* a verified verdict, whatever the payload, one without id or with a null id
\* included.
C25_LookupSkipsDeviceEntries ==
    (verdict.op \in FileOps /\ HasRecord) =>
        /\ "certificate_id" \in DOMAIN FoundRecord
        /\ Get(FoundRecord, "record_type") # "device_cleanup"
        /\ ~(verdict.verified /\ "certificate_id" \notin DOMAIN FoundRecord)

\* C26: generate_certificate saves the file with its carrier before it hands
\* the record to a store, so while an issuance is between the two the file
\* exists and its record is in no store; and a verify-file command run on that
\* file in this window does not end in a verified verdict.
C26_WindowVerificationFails ==
    (call.fn = "generate_certificate") =>
        /\ files[call.path] # NoFile
        /\ call.record \notin StoredRecords
        /\ (verdict.op \in FileOps /\ verdict.args.file = call.path) => ~verdict.verified

\* the record of the issuance that has just returned is in the store
Holds(store) ==
    \E i \in 1..Len(store) :
        Get(store[i], "generated_at") = last.record["generated_at"]

\* C27: once generate_certificate has returned with storing enabled, the
\* record is in MongoDB and not in the local log when MongoDB is connected and
\* took it, in the local log and not in MongoDB when MongoDB is not connected,
\* and in the local log when the MongoDB insert failed (the local log is then
\* the backend that accepts writes); with store_in_db False it is in neither.
C27_StoreFallback ==
    TruthyDict(last) =>
        /\ (last.backend = None /\ "store" \notin last.failed) =>
               (~Holds(mongoDb) /\ ~Holds(localStore))
        /\ last.backend = "db" => (mongoConnected /\ Holds(mongoDb) /\ ~Holds(localStore))
        /\ last.backend = "local_store" =>
               (~mongoConnected /\ Holds(localStore) /\ ~Holds(mongoDb))
        /\ ("store" \in last.failed /\ mongoConnected) =>
               (Holds(localStore) /\ ~Holds(mongoDb))

\* the outcome of a verify-file command, wording aside: the source behind a
\* verified (or metadata-only) result, else the kind of failure
Outcome(result) ==
    IF result.from # None THEN result.from
    ELSE IF result.reason \in TokenMismatchReasons THEN "token mismatch"
    ELSE IF result.reason \in ChecksumMismatchReasons THEN "checksum mismatch"
    ELSE IF result.reason \in NotFoundReasons THEN "no payload"
    ELSE IF result.reason \in {"Certificate not found in database",
                               "Certificate ID not found in database"}
    THEN "no record"
    ELSE IF result.reason \in {"Insufficient metadata to verify",
                               "Insufficient embedded metadata to verify certificate"}
    THEN "insufficient"
    ELSE result.reason

\* C28: for the same file, the same token and the same stores,
\* CertificateGenerator.verify_file and verify-file of verify_tool reach the
\* same outcome: the same source (db, local store, metadata only) or the same
\* kind of failure.
C28_VerifyFileAgree ==
    (verdict.op \in FileOps) =>
        LET other == IF verdict.op = "verify_file"
                     THEN ToolVerifyFile(verdict.args.file, verdict.args.token)
                     ELSE VerifyFile(verdict.args.file, verdict.args.token)
        IN  Outcome(verdict) = Outcome(other)

=============================================================================
